---- MODULE Spec2Model ----
(***************************************************************************)
(* Model of the MyFS encrypted container engine:                           *)
(*   src/backup/utils/fs_crypto.py  FS_Crypto (key derivation, AES-GCM)    *)
(*   src/utils/fs_metadata.py       Metadata  (external metadata artifact) *)
(*   src/utils/fs_manager.py        MyFSManager (container manager)        *)
(*                                                                         *)
(* A byte is a tuple of integers.  A plaintext byte b is <<b>>; a byte of  *)
(* AES-GCM output carries the key, the nonce and its index in front of the *)
(* byte it encrypts and a tag byte carries the key, the nonce and the       *)
(* length of the data, so that a blob is opened only by the key and nonce  *)
(* that sealed it.  Files are sequences of bytes.  Fields of the file      *)
(* record and of the metadata record that no operation reads back (file    *)
(* names, paths, time stamps, OS attributes, version) are left out.        *)
(***************************************************************************)
EXTENDS Integers, Sequences, FiniteSets, TLC

\* ------------------------------------------------------------------ bounds
\* number of import_file calls that create a record (uuid4 values issued)
MaxIds == 2
\* Metadata.metadata["max_files"]; the source ships 100, scaled down here
MaxFiles == 1
\* length in bytes of a source file offered to import_file
MaxFileSize == 1
\* number of successful change_password calls
MaxPwChanges == 1
\* number of calls made while the medium is out; the medium is not pulled
\* again once they are used up
MaxOffline == 1
MaxLen == 3

\* ------------------------------------------------------- program constants
TAG_LEN == 16
MAGIC_LEN == 5
ID_LEN == 16
PLATFORM_LEN == 25
TRAILER_LEN == 4

\* ------------------------------------------------------------ input sets
Passwords == {1, 2}
\* a falsy file password (None or "")
NoPassword == 0
FilePasswords == {1, 2}
\* the file passwords files are imported under
ImportPasswords == {1}
\* values os.urandom(16) returns
Salts == {1, 2}
\* the salt a container is created with, the salt change_password draws
\* and the salt import_file draws for an encrypted file
InitialSalts == {1}
ChangeSalts == {2}
FileSalts == {3}
Machines == {1, 2}
\* the password and the salt the container is created with; the other
\* passwords are offered to load, verify_password and change_password
InitialPasswords == {1}
B(x) == <<x>>
\* the source file of the import that is given the id file_id: size bytes
\* that no other source file holds
SourceContent(file_id, size) == [i \in 1..size |-> B(64 + file_id)]

Min(a, b) == IF a < b THEN a ELSE b
Max(a, b) == IF a > b THEN a ELSE b

\* Python slice s[a:b] with 0-based bounds, clipped to the sequence
Slice(s, a, b) == SubSeq(s, Min(a, Len(s)) + 1, Min(b, Len(s)))

\* --------------------------------------------------------------- FS_Crypto
\* marker in front of a ciphertext byte / a tag byte (outside 0..255)
CT == 255 + 1
TG == 255 + 2

\* md5(data).hexdigest(): an injective code, disjoint from the random salts
get_hash(x) == 100 + x

\* PBKDF2(password, salt, dkLen=44): blob[:32] is the key, blob[32:] the nonce
derive_key(password, salt) ==
    LET blob == password * 1000 + salt
    IN  [key |-> 2 * blob, nonce |-> 2 * blob + 1]

\* the tag AES-GCM computes over the data under (key, nonce)
GcmTag(data, key, nonce) ==
    [j \in 1..TAG_LEN |-> <<TG, key, nonce, j, Len(data)>>]

GcmCipher(data, key, nonce) ==
    [i \in 1..Len(data) |-> <<CT, key, nonce, i>> \o data[i]]

\* FS_Crypto.encrypt: tag + ciphertext
encrypt(data, key, nonce) ==
    GcmTag(data, key, nonce) \o GcmCipher(data, key, nonce)

\* variant: the tag is taken from the end of the data
decrypt_TagLast(encrypted_data, key, nonce) ==
    LET n          == Len(encrypted_data)
        tag        == Slice(encrypted_data, Max(n - TAG_LEN, 0), n)
        ciphertext == Slice(encrypted_data, 0, Max(n - TAG_LEN, 0))
        wellformed == \A i \in 1..Len(ciphertext) :
                         /\ Len(ciphertext[i]) > 4
                         /\ ciphertext[i][1] = CT
                         /\ ciphertext[i][2] = key
                         /\ ciphertext[i][3] = nonce
                         /\ ciphertext[i][4] = i
        plain      == [i \in 1..Len(ciphertext) |->
                         SubSeq(ciphertext[i], 5, Len(ciphertext[i]))]
    IN  IF wellformed /\ tag = GcmTag(plain, key, nonce)
        THEN [ok |-> TRUE, data |-> plain]
        ELSE [ok |-> FALSE, data |-> <<>>]

\* FS_Crypto.decrypt: tag = data[:16], ciphertext = data[16:];
\* decrypt_and_verify raises (ok = FALSE) when the tag does not verify
decrypt(encrypted_data, key, nonce) ==
    LET tag        == Slice(encrypted_data, 0, TAG_LEN)
        ciphertext == Slice(encrypted_data, TAG_LEN, Len(encrypted_data))
        wellformed == \A i \in 1..Len(ciphertext) :
                         /\ Len(ciphertext[i]) > 4
                         /\ ciphertext[i][1] = CT
                         /\ ciphertext[i][2] = key
                         /\ ciphertext[i][3] = nonce
                         /\ ciphertext[i][4] = i
        plain      == [i \in 1..Len(ciphertext) |->
                         SubSeq(ciphertext[i], 5, Len(ciphertext[i]))]
    IN  IF wellformed /\ tag = GcmTag(plain, key, nonce)
        THEN [ok |-> TRUE, data |-> plain]
        ELSE [ok |-> FALSE, data |-> <<>>]

\* ------------------------------------------------------------------- state
VARIABLES
    disk,       \* the container file MyFS.DRI: [exists, data]
    metaFile,   \* the metadata artifact on the medium: [st, key, nonce, rec]
    medium,     \* the removable medium is plugged in
    machine,    \* the machine the process runs on (its MachineGuid)
    mgr,        \* the MyFSManager instance (self)
    cls,        \* class-level state of Metadata: [path, metadata]
    shared,     \* self.metadata is the very object Metadata.metadata
    nextId,     \* number of uuid4 values issued so far
    pwChanges,  \* number of successful change_password calls so far
    offline,    \* number of calls made so far while the medium was out
    moved       \* history: ids of the records a compaction has moved

vars == <<disk, metaFile, medium, machine, mgr, cls, shared, nextId,
          pwChanges, offline, moved>>

NoFile == [exists |-> FALSE, data |-> <<>>]
File(d) == [exists |-> TRUE, data |-> d]

\* Metadata.metadata as declared in the class body; None is 0 and the
\* initial file_table None is the empty table (it is overwritten by the
\* first save before anything reads it)
DefaultMetadata ==
    [salt |-> 0, identifier |-> 0, max_files |-> MaxFiles,
     file_count |-> 0, deleted_count |-> 0, file_table |-> <<>>]

\* self.metadata as the manager uses it.  Its file_table entry is read
\* once, in load_filesystem, from the record read_metadata has just
\* returned, which is Metadata.metadata at that point; it is not carried here
SelfMetadata(m) ==
    [salt |-> m.salt, identifier |-> m.identifier, max_files |-> m.max_files,
     file_count |-> m.file_count, deleted_count |-> m.deleted_count]

\* self.metadata = None
NoMetadata ==
    [salt |-> 0, identifier |-> 0, max_files |-> 0,
     file_count |-> 0, deleted_count |-> 0]

MAGIC == <<B(77), B(121), B(70), B(83), B(0)>>

\* MyFSManager.__init__
NewManager ==
    [file_table |-> <<>>, master_key |-> 0, nonce |-> 0,
     metadata |-> NoMetadata, is_initialized |-> FALSE,
     access_password |-> 0, header |-> MAGIC]

AbsentMeta ==
    [st |-> "absent", key |-> 0, nonce |-> 0, rec |-> DefaultMetadata]
EmptyMeta ==
    [st |-> "empty", key |-> 0, nonce |-> 0, rec |-> DefaultMetadata]

\* what initialize_filesystem appends to the magic marker on machine m:
\* bytes.fromhex(identifier) + 0x00 + platform.platform() + 0x00 0x01 0x02
HeaderTail(m) ==
    [j \in 1..ID_LEN |-> B(get_hash(m))] \o <<B(0)>>
    \o [j \in 1..PLATFORM_LEN |-> B(87)] \o <<B(0), B(1), B(2)>>

HEADER_LEN == MAGIC_LEN + ID_LEN + PLATFORM_LEN + TRAILER_LEN

\* the state the operations work on, with the destination file of an export
\* (a fresh path for every call), the exception raised and the value returned
World ==
    [disk |-> disk, metaFile |-> metaFile, medium |-> medium,
     machine |-> machine, mgr |-> mgr, cls |-> cls,
     shared |-> shared, out |-> NoFile, err |-> "", ret |-> FALSE]

Raise(w, e) == [w EXCEPT !.err = e]

\* ----------------------------------------------------------------- Metadata
\* os.path.exists(Metadata.metadata_path)
MetaExists(w) == w.medium /\ w.metaFile.st # "absent"

\* variant: a field that is not there is added
update_metadata_Extends(w, field, value) ==
    [w EXCEPT !.cls.metadata =
                  [g \in DOMAIN @ \cup {field} |->
                      IF g = field THEN value ELSE @[g]],
              !.mgr.metadata = IF w.shared /\ field \in DOMAIN @
                               THEN [@ EXCEPT ![field] = value] ELSE @]

\* Metadata.update_metadata
update_metadata(w, field, value) ==
    IF field \notin DOMAIN w.cls.metadata THEN Raise(w, "KeyError")
    ELSE [w EXCEPT !.cls.metadata[field] = value,
                   !.mgr.metadata = IF w.shared /\ field \in DOMAIN @
                                    THEN [@ EXCEPT ![field] = value] ELSE @]

\* self.metadata[field] = value
SetSelfMetadata(w, field, value) ==
    [w EXCEPT !.mgr.metadata[field] = value,
              !.cls.metadata = IF w.shared
                               THEN [@ EXCEPT ![field] = value] ELSE @]

\* Metadata.write_metadata
write_metadata(w, password) ==
    IF ~w.cls.path THEN Raise(w, "MetadataPathNotSet")
    ELSE IF ~MetaExists(w) THEN Raise(w, "MetadataFileMissing")
    ELSE LET k == derive_key(password, get_hash(password))
         IN  [w EXCEPT !.metaFile = [st |-> "sealed", key |-> k.key,
                                     nonce |-> k.nonce,
                                     rec |-> w.cls.metadata]]

\* Metadata.read_metadata: on success Metadata.metadata becomes a fresh
\* object holding the persisted record
read_metadata(w, password) ==
    IF ~w.cls.path THEN Raise(w, "MetadataPathNotSet")
    ELSE IF ~MetaExists(w) THEN Raise(w, "MetadataFileMissing")
    ELSE LET k == derive_key(password, get_hash(password))
         IN  IF /\ w.metaFile.st = "sealed"
                /\ w.metaFile.key = k.key
                /\ w.metaFile.nonce = k.nonce
             THEN [w EXCEPT !.cls.metadata = w.metaFile.rec,
                            !.shared = FALSE]
             ELSE Raise(w, "AuthenticationError")

\* -------------------------------------------------- MyFSManager, disk level
\* variant: every sealing of the container draws a nonce of its own
EncryptFilesystem_FreshNonce(w) ==
    [w EXCEPT !.disk.data = encrypt(@, w.mgr.master_key,
                                    w.mgr.nonce + 2 * (1 + Len(@)))]

\* MyFSManager._encrypt_filesystem
EncryptFilesystem(w) ==
    [w EXCEPT !.disk.data = encrypt(@, w.mgr.master_key, w.mgr.nonce)]

\* MyFSManager._decrypt_filesystem
DecryptFilesystem(w) ==
    LET r == decrypt(w.disk.data, w.mgr.master_key, w.mgr.nonce)
    IN  IF r.ok THEN [w EXCEPT !.disk.data = r.data]
        ELSE Raise(w, "AuthenticationError")

\* variant: the container is never found sealed
IsEncrypted_Never(w) == FALSE

\* MyFSManager._is_encrypted
IsEncrypted(w) ==
    LET header == Slice(w.disk.data, 0, Len(w.mgr.header))
    IN  header # w.mgr.header

\* MyFSManager._create_filesystem_structure
CreateFilesystemStructure(w) == [w EXCEPT !.disk = File(w.mgr.header)]

\* variant: f.seek(0, os.SEEK_SET), the offset of the start of the file
GetNextFilePosition_SeekSet(w) == 0

\* MyFSManager._get_next_file_position: the size of the file on disk
GetNextFilePosition(w) == Len(w.disk.data)

\* variant: the records at the deleted offset are moved as well
CalculateFilePosition_AtOrAfter(table, file_size, file_position) ==
    [i \in 1..Len(table) |->
        IF table[i].position >= file_position
        THEN [table[i] EXCEPT !.position = @ - file_size]
        ELSE table[i]]

\* MyFSManager._calculate_file_position
CalculateFilePosition(table, file_size, file_position) ==
    [i \in 1..Len(table) |->
        IF table[i].position > file_position
        THEN [table[i] EXCEPT !.position = @ - file_size]
        ELSE table[i]]

\* f.seek(position); f.write(data) on a file opened 'r+b'
WriteAt(d, position, data) ==
    IF data = <<>> THEN d
    ELSE Slice(d, 0, position)
         \o [i \in 1..Max(0, position - Len(d)) |-> B(0)]
         \o data
         \o Slice(d, position + Len(data), Len(d))

\* variant: the read starts one byte late
ReadAt_OffByOne(d, position, size) ==
    Slice(d, position + 1, position + 1 + size)

\* f.seek(position); f.read(size)
ReadAt(d, position, size) == Slice(d, position, position + size)

IsActive(f) == ~f.deleted
IsDeleted(f) == f.deleted

\* variant: the deleted records are counted
ActiveCount_Deleted(table) == Len(SelectSeq(table, IsDeleted))

\* active_files = sum(1 for file in self.file_table if not deleted)
ActiveCount(table) == Len(SelectSeq(table, IsActive))
DeletedCount(table) == Len(SelectSeq(table, IsDeleted))

\* next(f for f in table if pred), as an index, 0 when there is none
FirstIndex(table, P(_)) ==
    IF \E i \in 1..Len(table) : P(table[i])
    THEN CHOOSE i \in 1..Len(table) :
            /\ P(table[i])
            /\ \A j \in 1..(i - 1) : ~P(table[j])
    ELSE 0

\* variant: save_filesystem does not look at is_initialized
SaveFilesystem_Unguarded(w) ==
    LET fc == Len(w.mgr.file_table)
        dc == DeletedCount(w.mgr.file_table)
        w1 == SetSelfMetadata(SetSelfMetadata(w, "file_count", fc),
                              "deleted_count", dc)
        w2 == update_metadata(
                update_metadata(
                  update_metadata(w1, "file_count", fc),
                  "deleted_count", dc),
                "file_table", w.mgr.file_table)
        w3 == write_metadata(w2, w.mgr.access_password)
    IN  IF w3.err # "" THEN w3
        ELSE IF ~IsEncrypted(w3) THEN EncryptFilesystem(w3) ELSE w3

\* MyFSManager.save_filesystem
SaveFilesystem(w) ==
    IF ~w.mgr.is_initialized THEN Raise(w, "NotInitialized")
    ELSE
    LET fc == Len(w.mgr.file_table)
        dc == DeletedCount(w.mgr.file_table)
        w1 == SetSelfMetadata(SetSelfMetadata(w, "file_count", fc),
                              "deleted_count", dc)
        w2 == update_metadata(
                update_metadata(
                  update_metadata(w1, "file_count", fc),
                  "deleted_count", dc),
                "file_table", w.mgr.file_table)
        w3 == write_metadata(w2, w.mgr.access_password)
    IN  IF w3.err # "" THEN w3
        ELSE IF ~IsEncrypted(w3) THEN EncryptFilesystem(w3) ELSE w3

\* ------------------------------------------ MyFSManager, public operations
\* MyFSManager.import_file; content is what open(file_path).read() returns,
\* file_salt what os.urandom(16) returns, file_id what uuid4() returns
import_file(w, src_exists, content, file_password, file_salt, file_id) ==
    IF ~w.mgr.is_initialized THEN Raise(w, "NotInitialized")
    ELSE IF ~src_exists THEN Raise(w, "SourceNotFound")
    ELSE IF ActiveCount(w.mgr.file_table) >= w.mgr.metadata.max_files
    THEN Raise(w, "CapacityExceeded")
    ELSE
    LET fk == derive_key(file_password, file_salt)
        file_data == IF file_password # NoPassword
                     THEN encrypt(content, fk.key, fk.nonce) ELSE content
        file_position == GetNextFilePosition(w)
        file_record ==
            [id |-> file_id, size |-> Len(file_data),
             original_size |-> Len(content),
             encrypted |-> file_password # NoPassword,
             position |-> file_position, deleted |-> FALSE,
             salt  |-> IF file_password # NoPassword THEN file_salt ELSE 0,
             nonce |-> IF file_password # NoPassword THEN fk.nonce ELSE 0]
        w1 == [w EXCEPT !.mgr.file_table = Append(@, file_record)]
        w2 == SetSelfMetadata(w1, "file_count", w1.mgr.metadata.file_count + 1)
        w3 == IF IsEncrypted(w2) THEN DecryptFilesystem(w2) ELSE w2
    IN  IF w3.err # "" THEN w3
        ELSE SaveFilesystem(
               [w3 EXCEPT !.disk.data = WriteAt(@, file_position, file_data)])

\* variant: the destination file is written before the data is decrypted
export_file_WritesFirst(w, file_id, file_password) ==
    IF ~w.mgr.is_initialized THEN Raise(w, "NotInitialized")
    ELSE
    LET idx == FirstIndex(w.mgr.file_table,
                          LAMBDA f : f.id = file_id /\ ~f.deleted)
    IN  IF idx = 0 THEN Raise(w, "NotFound")
        ELSE
        LET file_record == w.mgr.file_table[idx]
            w1 == IF IsEncrypted(w) THEN DecryptFilesystem(w) ELSE w
            file_data == ReadAt(w1.disk.data, file_record.position,
                                file_record.size)
            fk == derive_key(file_password, file_record.salt)
            r  == decrypt(file_data, fk.key, file_record.nonce)
            w2 == [w1 EXCEPT !.out = File(file_data)]
        IN  IF w1.err # "" THEN w1
            ELSE IF file_record.encrypted /\ file_password = NoPassword
            THEN Raise(w2, "PasswordRequired")
            ELSE IF file_record.encrypted /\ file_record.nonce # fk.nonce
            THEN Raise(w2, "InvalidPassword")
            ELSE IF file_record.encrypted /\ ~r.ok
            THEN Raise(w2, "AuthenticationError")
            ELSE EncryptFilesystem(
                   [w1 EXCEPT !.out = File(IF file_record.encrypted
                                           THEN r.data ELSE file_data)])

\* variant: the container is not sealed again after the export
export_file_LeavesOpen(w, file_id, file_password) ==
    IF ~w.mgr.is_initialized THEN Raise(w, "NotInitialized")
    ELSE
    LET idx == FirstIndex(w.mgr.file_table,
                          LAMBDA f : f.id = file_id /\ ~f.deleted)
    IN  IF idx = 0 THEN Raise(w, "NotFound")
        ELSE
        LET file_record == w.mgr.file_table[idx]
            w1 == IF IsEncrypted(w) THEN DecryptFilesystem(w) ELSE w
            file_data == ReadAt(w1.disk.data, file_record.position,
                                file_record.size)
            fk == derive_key(file_password, file_record.salt)
            r  == decrypt(file_data, fk.key, file_record.nonce)
        IN  IF w1.err # "" THEN w1
            ELSE IF file_record.encrypted /\ file_password = NoPassword
            THEN Raise(w1, "PasswordRequired")
            ELSE IF file_record.encrypted /\ file_record.nonce # fk.nonce
            THEN Raise(w1, "InvalidPassword")
            ELSE IF file_record.encrypted /\ ~r.ok
            THEN Raise(w1, "AuthenticationError")
            ELSE [w1 EXCEPT !.out = File(IF file_record.encrypted
                                         THEN r.data ELSE file_data)]

\* MyFSManager.export_file
export_file(w, file_id, file_password) ==
    IF ~w.mgr.is_initialized THEN Raise(w, "NotInitialized")
    ELSE
    LET idx == FirstIndex(w.mgr.file_table,
                          LAMBDA f : f.id = file_id /\ ~f.deleted)
    IN  IF idx = 0 THEN Raise(w, "NotFound")
        ELSE
        LET file_record == w.mgr.file_table[idx]
            w1 == IF IsEncrypted(w) THEN DecryptFilesystem(w) ELSE w
            file_data == ReadAt(w1.disk.data, file_record.position,
                                file_record.size)
            fk == derive_key(file_password, file_record.salt)
            r  == decrypt(file_data, fk.key, file_record.nonce)
        IN  IF w1.err # "" THEN w1
            ELSE IF file_record.encrypted /\ file_password = NoPassword
            THEN Raise(w1, "PasswordRequired")
            ELSE IF file_record.encrypted /\ file_record.nonce # fk.nonce
            THEN Raise(w1, "InvalidPassword")
            ELSE IF file_record.encrypted /\ ~r.ok
            THEN Raise(w1, "AuthenticationError")
            ELSE EncryptFilesystem(
                   [w1 EXCEPT !.out = File(IF file_record.encrypted
                                           THEN r.data ELSE file_data)])

\* variant: the deleted records are listed whatever include_deleted says
list_files_All(w, include_deleted) ==
    IF ~w.mgr.is_initialized THEN <<>>
    ELSE w.mgr.file_table

\* MyFSManager.list_files
list_files(w, include_deleted) ==
    IF ~w.mgr.is_initialized THEN <<>>
    ELSE IF include_deleted THEN w.mgr.file_table
    ELSE SelectSeq(w.mgr.file_table, IsActive)

\* variant: the soft deletion shifts the records behind the deleted one
delete_file_soft_Compacts(w, file_id) ==
    IF ~w.mgr.is_initialized THEN Raise(w, "NotInitialized")
    ELSE
    LET idx == FirstIndex(w.mgr.file_table,
                          LAMBDA f : f.id = file_id /\ ~f.deleted)
    IN  IF idx = 0 THEN Raise(w, "NotFound")
        ELSE
        LET r  == w.mgr.file_table[idx]
            w1 == [w EXCEPT !.mgr.file_table =
                      CalculateFilePosition(
                          [@ EXCEPT ![idx].deleted = TRUE], r.size, r.position)]
            w2 == SetSelfMetadata(w1, "file_count",
                                  w1.mgr.metadata.file_count - 1)
            w3 == SetSelfMetadata(w2, "deleted_count",
                                  w2.mgr.metadata.deleted_count + 1)
        IN  SaveFilesystem(w3)

\* MyFSManager.delete_file_soft
delete_file_soft(w, file_id) ==
    IF ~w.mgr.is_initialized THEN Raise(w, "NotInitialized")
    ELSE
    LET idx == FirstIndex(w.mgr.file_table,
                          LAMBDA f : f.id = file_id /\ ~f.deleted)
    IN  IF idx = 0 THEN Raise(w, "NotFound")
        ELSE
        LET w1 == [w EXCEPT !.mgr.file_table[idx].deleted = TRUE]
            w2 == SetSelfMetadata(w1, "file_count",
                                  w1.mgr.metadata.file_count - 1)
            w3 == SetSelfMetadata(w2, "deleted_count",
                                  w2.mgr.metadata.deleted_count + 1)
        IN  SaveFilesystem(w3)

\* MyFSManager.delete_file_permanent
delete_file_permanent(w, file_id) ==
    IF ~w.mgr.is_initialized THEN Raise(w, "NotInitialized")
    ELSE
    LET idx == FirstIndex(w.mgr.file_table, LAMBDA f : f.id = file_id)
    IN  IF idx = 0 THEN Raise(w, "NotFound")
        ELSE
        LET file_record == w.mgr.file_table[idx]
            file_size == file_record.size
            file_position == file_record.position
            w1 == IF IsEncrypted(w) THEN DecryptFilesystem(w) ELSE w
            data == w1.disk.data
            new_data == Slice(data, 0, file_position)
                        \o Slice(data, file_position + file_size, Len(data))
            w2 == [w1 EXCEPT !.disk.data = new_data]
            w3 == IF ~file_record.deleted
                  THEN SetSelfMetadata(w2, "file_count",
                                       w2.mgr.metadata.file_count - 1)
                  ELSE SetSelfMetadata(w2, "deleted_count",
                                       w2.mgr.metadata.deleted_count - 1)
            kept == SelectSeq(w3.mgr.file_table, LAMBDA f : f.id # file_id)
            w4 == [w3 EXCEPT !.mgr.file_table =
                      CalculateFilePosition(kept, file_size, file_position)]
        IN  IF w1.err # "" THEN w1 ELSE SaveFilesystem(w4)

\* MyFSManager.recover_file
recover_file(w, file_id) ==
    IF ~w.mgr.is_initialized THEN Raise(w, "NotInitialized")
    ELSE
    LET idx == FirstIndex(w.mgr.file_table,
                          LAMBDA f : f.id = file_id /\ f.deleted)
    IN  IF idx = 0 THEN Raise(w, "NotFound")
        ELSE IF ActiveCount(w.mgr.file_table) >= w.mgr.metadata.max_files
        THEN Raise(w, "CapacityExceeded")
        ELSE
        LET w1 == [w EXCEPT !.mgr.file_table[idx].deleted = FALSE]
            w2 == SetSelfMetadata(w1, "file_count",
                                  w1.mgr.metadata.file_count + 1)
            w3 == SetSelfMetadata(w2, "deleted_count",
                                  w2.mgr.metadata.deleted_count - 1)
        IN  SaveFilesystem(w3)

\* variant: without the try, a failure to read the metadata reaches the caller
verify_password_Propagates(w, input_access_password) ==
    IF ~w.mgr.is_initialized THEN Raise(w, "NotInitialized")
    ELSE
    LET w1 == read_metadata(w, input_access_password)
        k  == derive_key(input_access_password, w1.cls.metadata.salt)
        r  == decrypt(w1.disk.data, k.key, k.nonce)
    IN  IF w1.err # "" THEN w1
        ELSE IF ~w1.disk.exists THEN Raise(w1, "FileNotFound")
        ELSE IF ~r.ok THEN Raise(w1, "AuthenticationError")
        ELSE [w1 EXCEPT !.ret = TRUE]

\* MyFSManager.verify_password; the boolean it returns is ret
verify_password(w, input_access_password) ==
    IF ~w.mgr.is_initialized THEN Raise(w, "NotInitialized")
    ELSE
    LET w1 == read_metadata(w, input_access_password)
        k  == derive_key(input_access_password, w1.cls.metadata.salt)
        r  == decrypt(w1.disk.data, k.key, k.nonce)
    IN  IF w1.err # "" THEN [w EXCEPT !.ret = FALSE]
        ELSE IF ~w1.disk.exists THEN [w1 EXCEPT !.ret = FALSE]
        ELSE [w1 EXCEPT !.ret = r.ok]

\* variant: the metadata file is written under the old password
change_password_OldPassword(w, old_password, new_password, salt, unplugged) ==
    IF ~w.mgr.is_initialized THEN Raise(w, "NotInitialized")
    ELSE
    LET v  == verify_password(w, old_password)
        w1 == IF IsEncrypted(v) THEN DecryptFilesystem(v) ELSE v
        k  == derive_key(new_password, salt)
        w2 == update_metadata(SetSelfMetadata(w1, "salt", salt), "salt", salt)
        w3 == write_metadata(
                [w2 EXCEPT !.medium = IF unplugged THEN FALSE ELSE @],
                old_password)
        w4 == [w3 EXCEPT !.mgr.master_key = k.key,
                         !.mgr.nonce = k.nonce,
                         !.mgr.access_password = new_password]
    IN  IF ~v.ret THEN Raise(v, "OldPasswordIncorrect")
        ELSE IF w1.err # "" THEN w1
        ELSE IF w3.err # "" THEN w3
        ELSE EncryptFilesystem(w4)

\* variant: the old password is not verified
change_password_Unchecked(w, old_password, new_password, salt, unplugged) ==
    IF ~w.mgr.is_initialized THEN Raise(w, "NotInitialized")
    ELSE
    LET v  == verify_password(w, old_password)
        w1 == IF IsEncrypted(v) THEN DecryptFilesystem(v) ELSE v
        k  == derive_key(new_password, salt)
        w2 == update_metadata(SetSelfMetadata(w1, "salt", salt), "salt", salt)
        w3 == write_metadata(
                [w2 EXCEPT !.medium = IF unplugged THEN FALSE ELSE @],
                new_password)
        w4 == [w3 EXCEPT !.mgr.master_key = k.key,
                         !.mgr.nonce = k.nonce,
                         !.mgr.access_password = new_password]
    IN  IF w1.err # "" THEN w1
        ELSE IF w3.err # "" THEN w3
        ELSE EncryptFilesystem(w4)

\* MyFSManager.change_password; salt is what os.urandom(16) returns and
\* unplugged tells that the medium is pulled while the call is running,
\* after the old password was verified
change_password(w, old_password, new_password, salt, unplugged) ==
    IF ~w.mgr.is_initialized THEN Raise(w, "NotInitialized")
    ELSE
    LET v  == verify_password(w, old_password)
        w1 == IF IsEncrypted(v) THEN DecryptFilesystem(v) ELSE v
        k  == derive_key(new_password, salt)
        w2 == update_metadata(SetSelfMetadata(w1, "salt", salt), "salt", salt)
        w3 == write_metadata(
                [w2 EXCEPT !.medium = IF unplugged THEN FALSE ELSE @],
                new_password)
        w4 == [w3 EXCEPT !.mgr.master_key = k.key,
                         !.mgr.nonce = k.nonce,
                         !.mgr.access_password = new_password]
    IN  IF ~v.ret THEN Raise(v, "OldPasswordIncorrect")
        ELSE IF w1.err # "" THEN w1
        ELSE IF w3.err # "" THEN w3
        ELSE EncryptFilesystem(w4)

\* variant: the container file is created before the metadata is written
initialize_filesystem_DiskFirst(w, access_password, salt) ==
    LET k  == derive_key(access_password, salt)
        identifier == get_hash(w.machine)
        w1 == [w EXCEPT !.mgr.master_key = k.key,
                        !.mgr.nonce = k.nonce,
                        !.mgr.access_password = access_password,
                        !.mgr.header = @ \o HeaderTail(w.machine)]
        w2 == update_metadata(update_metadata(w1, "salt", salt),
                              "identifier", identifier)
        w3 == write_metadata(CreateFilesystemStructure(w2), access_password)
        w4 == [w3 EXCEPT !.mgr.metadata = SelfMetadata(w3.cls.metadata),
                         !.shared = TRUE]
        w5 == [CreateFilesystemStructure(w4) EXCEPT
                         !.mgr.is_initialized = TRUE]
    IN  IF w3.err # "" THEN w3 ELSE SaveFilesystem(w5)

\* MyFSManager.initialize_filesystem; salt is what os.urandom(16) returns
initialize_filesystem(w, access_password, salt) ==
    LET k  == derive_key(access_password, salt)
        identifier == get_hash(w.machine)
        w1 == [w EXCEPT !.mgr.master_key = k.key,
                        !.mgr.nonce = k.nonce,
                        !.mgr.access_password = access_password,
                        !.mgr.header = @ \o HeaderTail(w.machine)]
        w2 == update_metadata(update_metadata(w1, "salt", salt),
                              "identifier", identifier)
        w3 == write_metadata(w2, access_password)
        w4 == [w3 EXCEPT !.mgr.metadata = SelfMetadata(w3.cls.metadata),
                         !.shared = TRUE]
        w5 == [CreateFilesystemStructure(w4) EXCEPT
                         !.mgr.is_initialized = TRUE]
    IN  IF w3.err # "" THEN w3 ELSE SaveFilesystem(w5)

\* identifier != disk_id[4:4+16] compares a str with a bytes object, which
\* Python never finds equal
StrNeBytes(s, b) == TRUE

\* variant: the manager counts as initialized before the metadata is read
load_filesystem_FlagFirst(w, access_password) ==
    IF ~w.disk.exists THEN Raise(w, "FileNotFound")
    ELSE
    LET w1 == [w EXCEPT !.mgr.access_password = access_password,
                        !.mgr.is_initialized = TRUE]
        w2 == read_metadata(w1, access_password)
        k  == derive_key(access_password, w2.cls.metadata.salt)
        w3 == [w2 EXCEPT !.mgr.metadata = SelfMetadata(w2.cls.metadata),
                         !.shared = TRUE,
                         !.mgr.master_key = k.key,
                         !.mgr.nonce = k.nonce]
        w4 == DecryptFilesystem(w3)
        identifier == get_hash(w.machine)
        disk_id == Slice(w4.disk.data, 0,
                         Len(w.mgr.header) + ID_LEN + PLATFORM_LEN + TRAILER_LEN)
        w5 == [w4 EXCEPT !.mgr.file_table = w4.cls.metadata.file_table,
                         !.mgr.is_initialized = TRUE,
                         !.mgr.header = disk_id]
    IN  IF w2.err # "" THEN w2
        ELSE IF w4.err # "" THEN w4
        ELSE IF /\ identifier # w4.mgr.metadata.identifier
                /\ StrNeBytes(identifier, Slice(disk_id, 4, 4 + ID_LEN))
        THEN Raise(w4, "HardwareMismatch")
        ELSE EncryptFilesystem(w5)

\* MyFSManager.load_filesystem
load_filesystem(w, access_password) ==
    IF ~w.disk.exists THEN Raise(w, "FileNotFound")
    ELSE
    LET w1 == [w EXCEPT !.mgr.access_password = access_password]
        w2 == read_metadata(w1, access_password)
        k  == derive_key(access_password, w2.cls.metadata.salt)
        w3 == [w2 EXCEPT !.mgr.metadata = SelfMetadata(w2.cls.metadata),
                         !.shared = TRUE,
                         !.mgr.master_key = k.key,
                         !.mgr.nonce = k.nonce]
        w4 == DecryptFilesystem(w3)
        identifier == get_hash(w.machine)
        disk_id == Slice(w4.disk.data, 0,
                         Len(w.mgr.header) + ID_LEN + PLATFORM_LEN + TRAILER_LEN)
        w5 == [w4 EXCEPT !.mgr.file_table = w4.cls.metadata.file_table,
                         !.mgr.is_initialized = TRUE,
                         !.mgr.header = disk_id]
    IN  IF w2.err # "" THEN w2
        ELSE IF w4.err # "" THEN w4
        ELSE IF /\ identifier # w4.mgr.metadata.identifier
                /\ StrNeBytes(identifier, Slice(disk_id, 4, 4 + ID_LEN))
        THEN Raise(w4, "HardwareMismatch")
        ELSE EncryptFilesystem(w5)

\* ------------------------------------------------------------------ actions
\* the container as the manager decrypts it: the plaintext when the file on
\* disk is sealed under the manager's key, the file itself otherwise
PlainOf(w) ==
    LET r == decrypt(w.disk.data, w.mgr.master_key, w.mgr.nonce)
    IN  IF r.ok THEN r.data ELSE w.disk.data

\* ids of the records of table t whose position in table u is smaller
MovedIds(t, u) ==
    {t[i].id : i \in {i \in 1..Len(t) :
        \E j \in 1..Len(u) : u[j].id = t[i].id /\ u[j].position < t[i].position}}

\* the call returns: its effects become the state
Return(w) ==
    /\ medium \/ offline < MaxOffline
    /\ offline' = IF medium /\ w.medium THEN offline ELSE offline + 1
    /\ disk' = w.disk
    /\ metaFile' = w.metaFile
    /\ medium' = w.medium
    /\ machine' = w.machine
    /\ mgr' = w.mgr
    /\ cls' = w.cls
    /\ shared' = w.shared
    /\ moved' = {t \in moved \cup MovedIds(mgr.file_table, w.mgr.file_table) :
                    \E i \in 1..Len(w.mgr.file_table) :
                        w.mgr.file_table[i].id = t}

\* the world a finished call leaves to the next call
After(w) == [w EXCEPT !.err = "", !.ret = FALSE, !.out = NoFile]

\* main() constructs the manager and calls initialize_filesystem when there
\* is no container file, load_filesystem when there is one
Initialize(password, salt) ==
    /\ mgr = NewManager
    /\ ~disk.exists
    /\ Return(initialize_filesystem(World, password, salt))
    /\ UNCHANGED <<nextId, pwChanges>>

Load(password) ==
    /\ mgr = NewManager
    /\ Return(load_filesystem(World, password))
    /\ UNCHANGED <<nextId, pwChanges>>

Save ==
    /\ Return(SaveFilesystem(World))
    /\ UNCHANGED <<nextId, pwChanges>>

\* uuid4() is called once the source file was read
IssuesId(w) ==
    w.err \notin {"NotInitialized", "SourceNotFound", "CapacityExceeded"}

ImportCall(w, src_exists, size, file_password, file_salt, file_id) ==
    import_file(w, src_exists, SourceContent(file_id, size), file_password,
                file_salt, file_id)

Import(src_exists, size, file_password) ==
    /\ nextId < MaxIds
    /\ \E file_salt \in FileSalts :
        LET w == ImportCall(World, src_exists, size, file_password,
                            file_salt, nextId + 1)
        IN  /\ Return(w)
            /\ nextId' = IF IssuesId(w) THEN nextId + 1 ELSE nextId
    /\ UNCHANGED pwChanges

Export(file_id, file_password) ==
    /\ Return(export_file(World, file_id, file_password))
    /\ UNCHANGED <<nextId, pwChanges>>

DeleteSoft(file_id) ==
    /\ Return(delete_file_soft(World, file_id))
    /\ UNCHANGED <<nextId, pwChanges>>

DeletePermanent(file_id) ==
    /\ Return(delete_file_permanent(World, file_id))
    /\ UNCHANGED <<nextId, pwChanges>>

Recover(file_id) ==
    /\ Return(recover_file(World, file_id))
    /\ UNCHANGED <<nextId, pwChanges>>

VerifyPassword(password) ==
    /\ Return(verify_password(World, password))
    /\ UNCHANGED <<nextId, pwChanges>>

ChangePassword(old_password, new_password, salt, unplugged) ==
    /\ pwChanges < MaxPwChanges
    /\ unplugged => medium /\ offline < MaxOffline
    /\ LET w == change_password(World, old_password, new_password, salt,
                                unplugged)
       IN  /\ Return(w)
           /\ pwChanges' = IF w.err = "" THEN pwChanges + 1 ELSE pwChanges
    /\ UNCHANGED nextId

\* the process ends and app.py starts again.  A process that holds an
\* initialized manager ends through the Exit command of main(), which calls
\* save_filesystem first; a process whose initialize or load failed ends
\* in sys.exit.  (A process that dies with unsaved state is not modelled:
\* crash recovery is a stated non-goal.)  On start Metadata.check_usb and
\* check_metadata set metadata_path when the medium is there, main() creates
\* an empty metadata file before it initializes a new container, and a new
\* MyFSManager is constructed
Restart ==
    LET w == IF mgr.is_initialized THEN SaveFilesystem(World) ELSE World
    IN  /\ w.err = ""
        /\ disk' = w.disk
        /\ metaFile' = IF medium /\ ~w.disk.exists /\ w.metaFile.st = "absent"
                       THEN EmptyMeta ELSE w.metaFile
        /\ mgr' = NewManager
        /\ cls' = [path |-> medium, metadata |-> DefaultMetadata]
        /\ shared' = FALSE
        /\ moved' = {}
        /\ UNCHANGED <<medium, machine, nextId, pwChanges, offline>>

\* the user pulls or plugs the removable medium
Unplug ==
    /\ medium
    /\ offline < MaxOffline
    /\ medium' = FALSE
    /\ UNCHANGED <<disk, metaFile, machine, mgr, cls, shared, nextId,
                   pwChanges, offline, moved>>

Plug ==
    /\ ~medium
    /\ medium' = TRUE
    /\ UNCHANGED <<disk, metaFile, machine, mgr, cls, shared, nextId,
                   pwChanges, offline, moved>>

\* ---------------------------------------------------------- specification
\* app.py starts on machine 1 with the medium plugged in, no container yet
\* and the metadata file it has just created
Init ==
    /\ medium = TRUE
    /\ machine = 1
    /\ disk = NoFile
    /\ metaFile = EmptyMeta
    /\ mgr = NewManager
    /\ cls = [path |-> TRUE, metadata |-> DefaultMetadata]
    /\ shared = FALSE
    /\ nextId = 0
    /\ pwChanges = 0
    /\ offline = 0
    /\ moved = {}

Ids == 1..nextId

Next ==
    \/ \E p \in InitialPasswords, s \in InitialSalts : Initialize(p, s)
    \/ \E p \in Passwords : Load(p)
    \/ Save
    \/ \E n \in 0..MaxFileSize : Import(TRUE, n, NoPassword)
    \/ \E fp \in ImportPasswords : Import(TRUE, MaxFileSize, fp)
    \/ Import(FALSE, 0, NoPassword)
    \/ \E id \in Ids, fp \in {NoPassword} \cup FilePasswords : Export(id, fp)
    \/ \E id \in Ids : DeleteSoft(id)
    \/ \E id \in Ids : DeletePermanent(id)
    \/ \E id \in Ids : Recover(id)
    \/ \E p \in Passwords : VerifyPassword(p)
    \/ Restart

Spec == Init /\ [][Next]_vars

\* -------------------------- with password changes and a medium that is pulled
NextFaults ==
    \/ Next
    \/ \E o \in Passwords, n \in Passwords, s \in ChangeSalts, u \in BOOLEAN :
          ChangePassword(o, n, s, u)
    \/ Unplug
    \/ Plug

SpecFaults == Init /\ [][NextFaults]_vars

\* ------------------------------------------------- with password changes
NextPassword ==
    \/ Next
    \/ \E o \in Passwords, n \in Passwords, s \in ChangeSalts :
          ChangePassword(o, n, s, FALSE)

SpecPassword == Init /\ [][NextPassword]_vars

\* ------------------- start-up and saving with a medium that is pulled
NextStore ==
    \/ \E p \in InitialPasswords, s \in InitialSalts : Initialize(p, s)
    \/ \E p \in Passwords : Load(p)
    \/ Save
    \/ \E n \in 0..MaxFileSize : Import(TRUE, n, NoPassword)
    \/ \E id \in Ids : DeleteSoft(id)
    \/ \E id \in Ids : Recover(id)
    \/ \E p \in Passwords : VerifyPassword(p)
    \/ Restart
    \/ Unplug
    \/ Plug

SpecStore == Init /\ [][NextStore]_vars

\* ------------------------------------------- a container found at start-up
\* app.py on machine m before it has created anything
FreshWorld(m) ==
    [disk |-> NoFile, metaFile |-> EmptyMeta, medium |-> TRUE,
     machine |-> m, mgr |-> NewManager,
     cls |-> [path |-> TRUE, metadata |-> DefaultMetadata],
     shared |-> FALSE, out |-> NoFile, err |-> "", ret |-> FALSE]

\* the files an earlier run left: the container was created on machine h,
\* and Metadata.update_metadata("identifier", ...) followed by
\* Metadata.write_metadata has put the identifier of machine m in the
\* metadata file
FoundFiles(h, m, password, salt) ==
    LET w == initialize_filesystem(FreshWorld(h), password, salt)
    IN  write_metadata(update_metadata(w, "identifier", get_hash(m)),
                       password)

\* app.py starts on some machine and finds these files
InitFound ==
    /\ \E h \in Machines, m \in Machines, p \in InitialPasswords,
          s \in InitialSalts :
          /\ disk = FoundFiles(h, m, p, s).disk
          /\ metaFile = FoundFiles(h, m, p, s).metaFile
    /\ machine \in Machines
    /\ medium = TRUE
    /\ mgr = NewManager
    /\ cls = [path |-> TRUE, metadata |-> DefaultMetadata]
    /\ shared = FALSE
    /\ nextId = 0
    /\ pwChanges = 0
    /\ offline = 0
    /\ moved = {}

NextFound ==
    \/ \E p \in Passwords : Load(p)
    \/ \E n \in 0..MaxFileSize : Import(TRUE, n, NoPassword)
    \/ \E fp \in ImportPasswords : Import(TRUE, MaxFileSize, fp)
    \/ \E id \in Ids, fp \in {NoPassword} \cup FilePasswords : Export(id, fp)
    \/ \E id \in Ids : DeleteSoft(id)
    \/ \E id \in Ids : DeletePermanent(id)
    \/ \E id \in Ids : Recover(id)
    \/ \E p \in Passwords : VerifyPassword(p)
    \/ Restart

SpecFound == InitFound /\ [][NextFound]_vars

\* ------------------------------------------------- FS_Crypto on any data
\* the byte sequences given to FS_Crypto.encrypt
Plaintexts == UNION {[1..n -> {B(0), B(1)}] : n \in 0..MaxLen}

\* a file of any content and a manager holding any derived key and nonce
InitCrypto ==
    /\ \E d \in Plaintexts : disk = File(d)
    /\ \E p \in Passwords, s \in Salts :
          mgr = [NewManager EXCEPT !.master_key = derive_key(p, s).key,
                                   !.nonce = derive_key(p, s).nonce]
    /\ metaFile = EmptyMeta
    /\ medium = TRUE
    /\ machine = 1
    /\ cls = [path |-> TRUE, metadata |-> DefaultMetadata]
    /\ shared = FALSE
    /\ nextId = 0
    /\ pwChanges = 0
    /\ offline = 0
    /\ moved = {}

\* the file holds no seal of a seal yet
Nesting1(data) == \A i \in 1..Len(data) : Len(data[i]) <= 5

\* _encrypt_filesystem on the file
CryptoEncrypt ==
    /\ Nesting1(disk.data)
    /\ disk' = EncryptFilesystem(World).disk
    /\ UNCHANGED <<metaFile, medium, machine, mgr, cls, shared, nextId,
                   pwChanges, offline, moved>>

\* _decrypt_filesystem on the file, when the tag verifies
CryptoDecrypt ==
    /\ DecryptFilesystem(World).err = ""
    /\ disk' = DecryptFilesystem(World).disk
    /\ UNCHANGED <<metaFile, medium, machine, mgr, cls, shared, nextId,
                   pwChanges, offline, moved>>

\* another key and nonce are derived
CryptoDerive(password, salt) ==
    /\ mgr' = [mgr EXCEPT !.master_key = derive_key(password, salt).key,
                          !.nonce = derive_key(password, salt).nonce]
    /\ UNCHANGED <<disk, metaFile, medium, machine, cls, shared, nextId,
                   pwChanges, offline, moved>>

NextCrypto ==
    \/ CryptoEncrypt
    \/ CryptoDecrypt
    \/ \E p \in Passwords, s \in Salts : CryptoDerive(p, s)

SpecCrypto == InitCrypto /\ [][NextCrypto]_vars

\* ------------------------------------------------------------------ claims
Initialized == mgr.is_initialized
Table == mgr.file_table

RECURSIVE SumSizes(_)
SumSizes(table) ==
    IF table = <<>> THEN 0 ELSE Head(table).size + SumSizes(Tail(table))

\* the blob opens under a master key
Sealed(d) ==
    \E p \in Passwords, s \in Salts :
        decrypt(d.data, derive_key(p, s).key, derive_key(p, s).nonce).ok

\* the step is the return of the call whose outcome is w
Returns(w) ==
    /\ disk' = w.disk
    /\ metaFile' = w.metaFile
    /\ medium' = w.medium
    /\ mgr' = w.mgr
    /\ cls' = w.cls
    /\ shared' = w.shared

ReturnsOk(w) == w.err = "" /\ Returns(w)

ImportCalls(w) ==
    {ImportCall(w, TRUE, n, fp, fs, nextId + 1) :
        n \in 0..MaxFileSize, fp \in {NoPassword} \cup ImportPasswords,
        fs \in FileSalts}
ExportCalls(w) ==
    {export_file(w, id, fp) : id \in Ids, fp \in {NoPassword} \cup FilePasswords}
DeleteSoftCalls(w) == {delete_file_soft(w, id) : id \in Ids}
DeletePermanentCalls(w) == {delete_file_permanent(w, id) : id \in Ids}
RecoverCalls(w) == {recover_file(w, id) : id \in Ids}
VerifyCalls(w) == {verify_password(w, p) : p \in Passwords}
ChangeCalls(w) ==
    {change_password(w, o, n, s, u) :
        o \in Passwords, n \in Passwords, s \in ChangeSalts, u \in BOOLEAN}
LoadCalls(w) == {load_filesystem(w, p) : p \in Passwords}

\* the calls that change the file table, and save
TableCalls(w) ==
    ImportCalls(w) \cup DeleteSoftCalls(w) \cup DeletePermanentCalls(w)
    \cup RecoverCalls(w) \cup {SaveFilesystem(w)}

PublicCalls(w) ==
    TableCalls(w) \cup ExportCalls(w) \cup VerifyCalls(w) \cup ChangeCalls(w)
    \cup LoadCalls(w)

\* C1 (stated as claimed): after every public operation returns, with or
\* without an error, the container file on disk is sealed under a master key
C1_SealedAfterEveryCall ==
    [][(\E w \in PublicCalls(World) : Returns(w))
        => (disk'.exists => Sealed(disk'))]_vars

\* C2: an active record stored without a file password exports to exactly
\* the bytes that were imported, whatever happened to the other records
ExportsOriginal(w, r) ==
    \A fp \in {NoPassword} \cup FilePasswords :
        LET x == export_file(w, r.id, fp)
        IN  /\ x.err = ""
            /\ x.out = File(SourceContent(r.id, r.original_size))

C2_ExportRoundTrip ==
    Initialized =>
        \A i \in 1..Len(Table) :
            (~Table[i].deleted /\ ~Table[i].encrypted)
                => ExportsOriginal(World, Table[i])

\* a record that a permanent deletion has moved exports its bytes
C2_Witness ==
    /\ Initialized
    /\ \E i \in 1..Len(Table) :
        /\ ~Table[i].deleted /\ ~Table[i].encrypted
        /\ Table[i].id \in moved
        /\ Table[i].original_size > 0
        /\ ExportsOriginal(World, Table[i])

\* every offset after the header lies in the range of a record
PayloadCovered(table, plain) ==
    \A o \in HEADER_LEN..(Len(plain) - 1) :
        \E i \in 1..Len(table) :
            /\ table[i].position <= o
            /\ o < table[i].position + table[i].size

\* C3 (stated as claimed): a successful import places the new record at the
\* length the decrypted container had when the call was made, so that the
\* ranges of the records cover the region after the header without a gap
C3_ImportAppends ==
    [][\A w \in ImportCalls(World) :
          ReturnsOk(w) =>
              /\ w.mgr.file_table[Len(w.mgr.file_table)].position
                     = Len(PlainOf(World))
              /\ PayloadCovered(w.mgr.file_table, PlainOf(w))]_vars

PayloadLen(w) == Len(PlainOf(w)) - HEADER_LEN

InitializeCalls(w) ==
    {initialize_filesystem(w, p, s) : p \in Passwords, s \in Salts}

\* C4 (stated as claimed): after every successful operation the decrypted
\* container is longer than the header by the sum of the sizes of the
\* records of the table, the soft-deleted ones included
C4_PayloadIsSumOfSizes ==
    [][(\E w \in PublicCalls(World) \cup InitializeCalls(World) :
            ReturnsOk(w))
        => PayloadLen(World)' = SumSizes(Table')]_vars

Range(r) == r.position..(r.position + r.size - 1)

\* C5: the ranges of two records of non-zero size never share a byte, and
\* each lies after the header and inside the decrypted container
C5_RangesDisjoint ==
    Initialized =>
        /\ \A i, j \in 1..Len(Table) :
               i # j => Range(Table[i]) \cap Range(Table[j]) = {}
        /\ \A i \in 1..Len(Table) :
               Table[i].size > 0 =>
                   /\ Table[i].position >= HEADER_LEN
                   /\ Table[i].position + Table[i].size
                          <= Len(PlainOf(World))

\* two records of non-zero size are stored, one of them soft-deleted
C5_Witness ==
    /\ Initialized
    /\ \E i, j \in 1..Len(Table) :
        /\ i # j
        /\ Table[i].size > 0 /\ Table[j].size > 0
        /\ Table[i].deleted /\ ~Table[j].deleted

\* what delete_file_permanent(file_id) has to leave, from world w to world x
Compacted(w, x, file_id) ==
    LET t == w.mgr.file_table
        u == x.mgr.file_table
        gone == t[FirstIndex(t, LAMBDA f : f.id = file_id)]
        kept == SelectSeq(t, LAMBDA f : f.id # file_id)
    IN  /\ \A i \in 1..Len(u) : u[i].id # file_id
        /\ Len(u) = Len(kept)
        /\ \A i \in 1..Len(kept) :
               u[i] = IF kept[i].position > gone.position
                      THEN [kept[i] EXCEPT !.position = @ - gone.size]
                      ELSE kept[i]
        /\ Len(PlainOf(x)) = Len(PlainOf(w)) - gone.size

\* C6: a successful delete_file_permanent of a record of size S at offset P
\* removes the record, lowers by S the offset of every record stored after
\* P, leaves the other offsets alone and shortens the container by S
C6_PermanentDeleteCompacts ==
    \A id \in Ids :
        LET x == delete_file_permanent(World, id)
        IN  x.err = "" => Compacted(World, x, id)

\* a permanent deletion has moved a record that is still in the table
C6_Witness ==
    /\ Initialized
    /\ \E i \in 1..Len(Table) : Table[i].id \in moved

\* the container on disk opens under the key the manager holds
SealedAtRest(w) ==
    decrypt(w.disk.data, w.mgr.master_key, w.mgr.nonce).ok

\* C7 (stated as claimed): on a loaded container that is sealed at rest,
\* an import followed by delete_file_permanent of the record it created
\* gives back the decrypted container and the table of before the import
C7_ImportThenPurge ==
    (Initialized /\ SealedAtRest(World)) =>
        \A n \in 0..MaxFileSize, fp \in {NoPassword} \cup ImportPasswords,
           fs \in FileSalts :
            LET x == ImportCall(World, TRUE, n, fp, fs, nextId + 1)
                y == delete_file_permanent(After(x), nextId + 1)
            IN  x.err = "" =>
                    /\ y.err = ""
                    /\ PlainOf(y) = PlainOf(World)
                    /\ y.mgr.file_table = Table

NumActive(table) == Cardinality({i \in 1..Len(table) : ~table[i].deleted})
NumDeleted(table) == Cardinality({i \in 1..Len(table) : table[i].deleted})

\* C8 (stated as claimed): after a successful import, soft delete, recover,
\* permanent delete or save, file_count is the number of active records and
\* deleted_count the number of soft-deleted records, in memory and in the
\* metadata file
C8_CountersMatchTable ==
    [][(\E w \in TableCalls(World) : ReturnsOk(w)) =>
          /\ mgr'.metadata.file_count = NumActive(Table')
          /\ mgr'.metadata.deleted_count = NumDeleted(Table')
          /\ metaFile'.rec.file_count = NumActive(Table')
          /\ metaFile'.rec.deleted_count = NumDeleted(Table')]_vars

\* the call failed and left the table, the counters and the files alone
Refused(w, x) ==
    /\ x.err = "CapacityExceeded"
    /\ x.mgr.file_table = w.mgr.file_table
    /\ x.mgr.metadata = w.mgr.metadata
    /\ x.disk = w.disk
    /\ x.metaFile = w.metaFile

\* C9: the number of active records never exceeds max_files; with max_files
\* active records every import and every recover of a soft-deleted record
\* fails and leaves the table, the counters and the container as they were
C9_Capacity ==
    Initialized =>
        /\ NumActive(Table) <= mgr.metadata.max_files
        /\ NumActive(Table) = mgr.metadata.max_files =>
            /\ \A x \in ImportCalls(World) : Refused(World, x)
            /\ \A i \in 1..Len(Table) :
                   Table[i].deleted
                       => Refused(World, recover_file(World, Table[i].id))

\* the table is full and holds a soft-deleted record besides
C9_Witness ==
    /\ Initialized
    /\ NumActive(Table) = mgr.metadata.max_files
    /\ NumDeleted(Table) > 0
    /\ \A x \in ImportCalls(World) : Refused(World, x)

\* the identifier in the header of the container that opens under the
\* access password and the salt of the metadata file, as a byte
HeaderIdentifier(w, password) ==
    LET k == derive_key(password, w.metaFile.rec.salt)
    IN  decrypt(w.disk.data, k.key, k.nonce).data[MAGIC_LEN + 1]

\* the metadata file and the container open under the access password
Opens(w, password) ==
    LET k == derive_key(password, w.metaFile.rec.salt)
    IN  /\ w.disk.exists
        /\ read_metadata(w, password).err = ""
        /\ decrypt(w.disk.data, k.key, k.nonce).ok

\* C10 (stated as claimed): load_filesystem fails with the hardware mismatch
\* error whenever the identifier in the decrypted header is not that of the
\* machine, whatever identifier the metadata holds, and succeeds only when
\* the two are equal
C10_HeaderBindsMachine ==
    [][\A p \in Passwords :
          LET x == load_filesystem(World, p)
          IN  (mgr = NewManager /\ Opens(World, p) /\ Returns(x)) =>
                /\ HeaderIdentifier(World, p) # B(get_hash(machine))
                       => x.err = "HardwareMismatch"
                /\ x.err = ""
                       => HeaderIdentifier(World, p) = B(get_hash(machine))]_vars

\* verify_password(p) called in world w returns True
Verifies(w, p) ==
    LET v == verify_password(After(w), p)
    IN  v.err = "" /\ v.ret

\* C11 (stated as claimed): after change_password(old, new) has returned
\* without an error, verify_password(old) returns False and
\* verify_password(new) returns True
C11_RotationAsClaimed ==
    [][\A o \in Passwords, n \in Passwords, s \in ChangeSalts :
          ReturnsOk(change_password(World, o, n, s, FALSE)) =>
              /\ Verifies(World', n)
              /\ ~Verifies(World', o)]_vars

\* C11 (amended): after change_password(old, new) has returned without an
\* error, verify_password(new) returns True, and verify_password(old)
\* returns False when old and new are different passwords
C11_PasswordRotation ==
    \A o \in Passwords, n \in Passwords, s \in ChangeSalts :
        LET x == change_password(World, o, n, s, FALSE)
        IN  x.err = "" =>
                /\ Verifies(x, n)
                /\ o # n => ~Verifies(x, o)

\* the access password was changed to another one, which verifies
C11_Witness ==
    /\ Initialized
    /\ pwChanges > 0
    /\ mgr.access_password \notin InitialPasswords
    /\ Verifies(World, mgr.access_password)
    /\ \A p \in InitialPasswords : ~Verifies(World, p)

\* the container file opens under the key derived from the password that
\* opens the metadata file and the salt stored in it
KeyedConsistently(w) ==
    \E p \in Passwords :
        LET m == derive_key(p, get_hash(p))
            k == derive_key(p, w.metaFile.rec.salt)
        IN  /\ w.metaFile.st = "sealed"
            /\ w.metaFile.key = m.key /\ w.metaFile.nonce = m.nonce
            /\ decrypt(w.disk.data, k.key, k.nonce).ok

\* C12 (stated as claimed): when change_password returns or fails part-way,
\* for instance because the medium is pulled before the metadata is written,
\* the container is sealed under the key of the password and salt of the
\* metadata file, and it is so after every save that succeeds
C12_RotationAtomic ==
    [][/\ \A o \in Passwords, n \in Passwords, s \in ChangeSalts,
             u \in BOOLEAN :
             (KeyedConsistently(World)
                 /\ Returns(change_password(World, o, n, s, u)))
                 => KeyedConsistently(World')
       /\ ReturnsOk(SaveFilesystem(World)) => KeyedConsistently(World')]_vars

\* export_file of record r with file password fp, called in world w,
\* succeeds and writes the bytes that were imported
ExportsWith(w, r, fp) ==
    LET x == export_file(After(w), r.id, fp)
    IN  /\ x.err = ""
        /\ x.out = File(SourceContent(r.id, r.original_size))

\* fp is the file password record r was imported under
IsPasswordOf(r, fp) ==
    IF r.encrypted
    THEN fp # NoPassword /\ derive_key(fp, r.salt).nonce = r.nonce
    ELSE fp = NoPassword

\* C13: a change_password that succeeds leaves the file table and the
\* decrypted container as they were, and every active record still exports
\* its bytes under the file password it was imported with
C13_RotationKeepsFiles ==
    \A o \in Passwords, n \in Passwords, s \in ChangeSalts :
        LET x == change_password(World, o, n, s, FALSE)
        IN  x.err = "" =>
                /\ x.mgr.file_table = Table
                /\ PlainOf(x) = PlainOf(World)
                /\ \A i \in 1..Len(Table) :
                       ~Table[i].deleted =>
                           \A fp \in {NoPassword} \cup FilePasswords :
                               IsPasswordOf(Table[i], fp)
                                   => ExportsWith(x, Table[i], fp)

\* the access password was changed while an individually encrypted record
\* was stored, and the record exports under its file password
C13_Witness ==
    /\ Initialized
    /\ pwChanges > 0
    /\ mgr.access_password \notin InitialPasswords
    /\ \E i \in 1..Len(Table), fp \in FilePasswords :
        /\ ~Table[i].deleted /\ Table[i].encrypted
        /\ Table[i].original_size > 0
        /\ IsPasswordOf(Table[i], fp)
        /\ ExportsWith(World, Table[i], fp)

\* export_file of record r with file password fp, called in world w, fails
\* on the file password and writes no destination file
ExportRefused(w, r, fp) ==
    LET x == export_file(After(w), r.id, fp)
    IN  /\ x.err \in {"PasswordRequired", "InvalidPassword",
                      "AuthenticationError"}
        /\ x.out = NoFile

\* C14: an active record imported under a file password exports its bytes
\* under that password; under another file password or under none the
\* export fails and writes nothing
C14_FilePassword ==
    Initialized =>
        \A i \in 1..Len(Table) :
            (~Table[i].deleted /\ Table[i].encrypted) =>
                \A fp \in {NoPassword} \cup FilePasswords :
                    IF IsPasswordOf(Table[i], fp)
                    THEN ExportsWith(World, Table[i], fp)
                    ELSE ExportRefused(World, Table[i], fp)

\* an individually encrypted record is stored; it exports under one file
\* password and is refused under another and under none
C14_Witness ==
    /\ Initialized
    /\ \E i \in 1..Len(Table), fp \in FilePasswords, other \in FilePasswords :
        /\ ~Table[i].deleted /\ Table[i].encrypted
        /\ Table[i].original_size > 0
        /\ ExportsWith(World, Table[i], fp)
        /\ ExportRefused(World, Table[i], other)
        /\ ExportRefused(World, Table[i], NoPassword)

\* C15 (stated as claimed): in every state verify_password returns a
\* boolean and raises nothing
C15_AlwaysBoolean ==
    \A p \in Passwords :
        LET v == verify_password(World, p)
        IN  v.err = "" /\ v.ret \in BOOLEAN

\* C15 (amended): on an initialized manager verify_password returns a
\* boolean and raises nothing, whatever fails underneath
C15_BooleanWhenInitialized ==
    Initialized =>
        \A p \in Passwords :
            LET v == verify_password(World, p)
            IN  v.err = "" /\ v.ret \in BOOLEAN

\* the medium is out: reading the metadata fails and verify_password of
\* the access password returns False
C15_Witness ==
    /\ Initialized
    /\ ~medium
    /\ read_metadata(World, mgr.access_password).err # ""
    /\ verify_password(World, mgr.access_password).err = ""
    /\ ~verify_password(World, mgr.access_password).ret

\* C16: on a manager that is not initialized and with a container file on
\* disk, load_filesystem with a password that does not open the metadata
\* file raises the authentication error and leaves the container file, the
\* metadata file, the initialized flag and the file table as they were
C16_LoadWrongPassword ==
    \A p \in Passwords :
        (/\ ~mgr.is_initialized
         /\ disk.exists
         /\ read_metadata(World, p).err = "AuthenticationError")
        => LET x == load_filesystem(World, p)
           IN  /\ x.err = "AuthenticationError"
               /\ x.disk = disk
               /\ x.metaFile = metaFile
               /\ ~x.mgr.is_initialized
               /\ x.mgr.file_table = mgr.file_table

\* a load with a password that does not open the metadata file has failed:
\* the manager holds that password and is not initialized
C16_Witness ==
    /\ ~mgr.is_initialized
    /\ mgr.access_password \in Passwords
    /\ disk.exists
    /\ read_metadata(World, mgr.access_password).err = "AuthenticationError"

\* C17: change_password with an old password that verify_password does not
\* accept fails and leaves the master key and nonce, the salt the manager
\* holds, the access password, the metadata file and the container file as
\* they were
C17_RotationRefused ==
    \A o \in Passwords, n \in Passwords, s \in ChangeSalts, u \in BOOLEAN :
        ~Verifies(World, o)
        => LET x == change_password(World, o, n, s, u)
           IN  /\ x.err # ""
               /\ x.mgr.master_key = mgr.master_key
               /\ x.mgr.nonce = mgr.nonce
               /\ x.mgr.metadata.salt = mgr.metadata.salt
               /\ x.mgr.access_password = mgr.access_password
               /\ x.metaFile = metaFile
               /\ x.disk = disk

\* after a rotation the former password is refused as old password
C17_Witness ==
    /\ Initialized
    /\ pwChanges > 0
    /\ \E o \in InitialPasswords, n \in Passwords, s \in ChangeSalts :
          /\ ~Verifies(World, o)
          /\ change_password(World, o, n, s, FALSE).err = "OldPasswordIncorrect"

\* the bytes import_file stored for record r: the content of the source
\* file, sealed under the file key when a file password was given
IsStoredOf(r, bytes) ==
    IF r.encrypted
    THEN \E fp \in FilePasswords :
            /\ IsPasswordOf(r, fp)
            /\ bytes = encrypt(SourceContent(r.id, r.original_size),
                               derive_key(fp, r.salt).key, r.nonce)
    ELSE bytes = SourceContent(r.id, r.original_size)

\* record r is soft-deleted in world w: no export reaches it, list_files
\* without the deleted ones omits it, its bytes are in the decrypted
\* container at [position, position + size), and once recover_file has
\* succeeded it exports the imported bytes again
Shelved(w, r) ==
    /\ \A fp \in {NoPassword} \cup FilePasswords :
          export_file(w, r.id, fp).err = "NotFound"
    /\ LET l == list_files(w, FALSE)
       IN  \A j \in 1..Len(l) : l[j].id # r.id
    /\ IsStoredOf(r, ReadAt(PlainOf(w), r.position, r.size))
    /\ LET x == recover_file(w, r.id)
       IN  x.err = "" =>
             \A fp \in {NoPassword} \cup FilePasswords :
                 IsPasswordOf(r, fp) => ExportsWith(x, r, fp)

\* C18: a soft-deleted record cannot be exported and is not listed among
\* the active files, its bytes stay in the decrypted container at
\* [position, position + size), and after recover_file it exports the
\* imported bytes again
C18_SoftDeleteKeepsBytes ==
    Initialized =>
        \A i \in 1..Len(Table) : Table[i].deleted => Shelved(World, Table[i])

\* a soft-deleted record with content, which recover_file brings back
C18_Witness ==
    /\ Initialized
    /\ \E i \in 1..Len(Table) :
          /\ Table[i].deleted
          /\ Table[i].original_size > 0
          /\ Shelved(World, Table[i])
          /\ recover_file(World, Table[i].id).err = ""

\* the metadata store cannot be reached: Metadata.metadata_path is not set
\* or there is no metadata file at it
StoreUnreachable(w) == ~w.cls.path \/ ~MetaExists(w)

\* C19: when the metadata store cannot be reached, initialize_filesystem
\* fails, creates no container file and leaves the manager uninitialized
C19_InitializeNeedsStore ==
    \A p \in Passwords, s \in Salts :
        (StoreUnreachable(World) /\ ~Initialized)
        => LET x == initialize_filesystem(World, p, s)
           IN  /\ x.err \in {"MetadataPathNotSet", "MetadataFileMissing"}
               /\ x.disk = disk
               /\ ~x.mgr.is_initialized

\* initialize_filesystem has failed with the medium out: the manager holds
\* the password, there is no container file, and it is not initialized
C19_Witness ==
    /\ StoreUnreachable(World)
    /\ mgr.access_password \in Passwords
    /\ ~Initialized
    /\ ~disk.exists

\* the calls that are not to move a record: every public call but
\* delete_file_permanent and load_filesystem
KeepingCalls(w) ==
    ImportCalls(w) \cup ExportCalls(w) \cup DeleteSoftCalls(w)
    \cup RecoverCalls(w) \cup {SaveFilesystem(w)} \cup VerifyCalls(w)
    \cup ChangeCalls(w)

\* table u holds every record of table t at its place, with the id, the
\* position and the size it has in t
KeepsRecords(t, u) ==
    /\ Len(u) >= Len(t)
    /\ \A i \in 1..Len(t) :
          /\ u[i].id = t[i].id
          /\ u[i].position = t[i].position
          /\ u[i].size = t[i].size

\* every record of table u is a record of table t, with the id and the
\* size it has in t
KeepsIds(t, u) ==
    \A j \in 1..Len(u) :
        \E i \in 1..Len(t) : u[j].id = t[i].id /\ u[j].size = t[i].size

\* C20: no two records of the table have the same id; import_file,
\* export_file, delete_file_soft, recover_file, save_filesystem,
\* verify_password and change_password, whether they succeed or fail, leave
\* the id, the position and the size of every record of the table as they
\* were; delete_file_permanent leaves the records it keeps their ids
C20_IdsAndPositionsStable ==
    /\ \A i \in 1..Len(Table), j \in 1..Len(Table) :
          Table[i].id = Table[j].id => i = j
    /\ \A x \in KeepingCalls(World) : KeepsRecords(Table, x.mgr.file_table)
    /\ \A x \in DeletePermanentCalls(World) : KeepsIds(Table, x.mgr.file_table)

\* two records, the first soft-deleted and the second stored behind it,
\* after a change of password
C20_Witness ==
    /\ Initialized
    /\ pwChanges > 0
    /\ Len(Table) >= 2
    /\ Table[1].deleted
    /\ Table[1].size > 0
    /\ Table[2].position > Table[1].position
    /\ Table[1].id # Table[2].id

\* data is the output of encrypt: a tag first
IsSeal(data) ==
    Len(data) >= TAG_LEN /\ Len(data[1]) = 5 /\ data[1][1] = TG

\* the key and the nonce a seal was made under
SealPairOf(data) == <<data[1][2], data[1][3]>>

\* the public calls that leave the access password and the salt alone
SamePasswordCalls(w) ==
    TableCalls(w) \cup ExportCalls(w) \cup VerifyCalls(w)

\* C21: the seal in the container file of an initialized manager is made
\* under the manager's master key and nonce.  A call other than
\* change_password leaves the access password, the salt, the master key and
\* the nonce as they were; when it succeeds and has rewritten the container
\* file, the file is a seal under that master key and nonce; when it has
\* rewritten the metadata file, the file is sealed under the key and nonce
\* derived from the access password and its hash
C21_SamePairForEverySeal ==
    Initialized =>
        LET m == derive_key(mgr.access_password, get_hash(mgr.access_password))
        IN  /\ IsSeal(disk.data) =>
                  SealPairOf(disk.data) = <<mgr.master_key, mgr.nonce>>
            /\ \A x \in SamePasswordCalls(World) :
                /\ x.mgr.access_password = mgr.access_password
                /\ x.mgr.metadata.salt = mgr.metadata.salt
                /\ x.mgr.master_key = mgr.master_key
                /\ x.mgr.nonce = mgr.nonce
                /\ (x.err = "" /\ x.disk # disk) =>
                      /\ IsSeal(x.disk.data)
                      /\ SealPairOf(x.disk.data) = <<mgr.master_key, mgr.nonce>>
                /\ x.metaFile # metaFile =>
                      /\ x.metaFile.st = "sealed"
                      /\ x.metaFile.key = m.key
                      /\ x.metaFile.nonce = m.nonce

\* after an import the container file is a seal, and a further import seals
\* another content under the same key and nonce
C21_Witness ==
    /\ Initialized
    /\ nextId > 0
    /\ IsSeal(disk.data)
    /\ \E x \in ImportCalls(World) :
          /\ x.err = ""
          /\ IsSeal(x.disk.data)
          /\ SealPairOf(x.disk.data) = SealPairOf(disk.data)
          /\ PlainOf(x) # PlainOf(World)
          /\ x.metaFile # metaFile
          /\ x.metaFile.key = metaFile.key
          /\ x.metaFile.nonce = metaFile.nonce

\* C22: for the content of the file and every derived key and nonce,
\* encrypt gives the 16 bytes of the tag followed by one ciphertext byte for
\* each byte of the content, and decrypt of that under the same key and
\* nonce gives the content back
C22_OpenOfSeal ==
    \A p \in Passwords, s \in Salts :
        LET k == derive_key(p, s)
            e == encrypt(disk.data, k.key, k.nonce)
        IN  /\ Len(e) = TAG_LEN + Len(disk.data)
            /\ Slice(e, 0, TAG_LEN) = GcmTag(disk.data, k.key, k.nonce)
            /\ Slice(e, TAG_LEN, Len(e)) = GcmCipher(disk.data, k.key, k.nonce)
            /\ decrypt(e, k.key, k.nonce) = [ok |-> TRUE, data |-> disk.data]

\* the file is the seal of a seal of some bytes, and opens under the key
\* and nonce held
C22_Witness ==
    /\ IsSeal(disk.data)
    /\ decrypt(disk.data, mgr.master_key, mgr.nonce).ok
    /\ IsSeal(decrypt(disk.data, mgr.master_key, mgr.nonce).data)
    /\ Len(disk.data) > 2 * TAG_LEN

\* names given to update_metadata: the fields of Metadata.metadata and two
\* names that are not fields of it
FieldNames == DOMAIN DefaultMetadata \cup {"owner", "file_tabel"}

\* values given to update_metadata for a name
FieldValues(field) ==
    IF field = "file_table" THEN {<<>>, Table} ELSE {0, 7}

\* C23: update_metadata with a name that is not a field of
\* Metadata.metadata raises KeyError and leaves the record as it was; with
\* the name of a field it sets that field and leaves the other fields and
\* the set of fields as they were
C23_UpdateField ==
    \A field \in FieldNames :
        \A value \in FieldValues(field) :
            LET x == update_metadata(World, field, value)
            IN  IF field \notin DOMAIN cls.metadata
                THEN /\ x.err = "KeyError"
                     /\ x.cls = cls
                     /\ x.mgr = mgr
                ELSE /\ x.err = ""
                     /\ DOMAIN x.cls.metadata = DOMAIN cls.metadata
                     /\ x.cls.metadata[field] = value
                     /\ \A g \in DOMAIN cls.metadata \ {field} :
                           x.cls.metadata[g] = cls.metadata[g]

\* the record holds what the manager has put in it field by field, and a
\* name that is not a field is refused
C23_Witness ==
    /\ Initialized
    /\ cls.metadata.salt \in Salts
    /\ cls.metadata.file_table # <<>>
    /\ cls.metadata.file_count > 0
    /\ update_metadata(World, "owner", 0).err = "KeyError"
    /\ update_metadata(World, "file_count", 0).cls.metadata.file_table
           = cls.metadata.file_table

\* C24 (stated as claimed): whenever the manager is initialized and the
\* medium is in, verify_password of the access password returns True, and
\* change_password from the access password is not refused on the old
\* password
C24_CurrentPasswordVerifies ==
    (Initialized /\ medium) =>
        /\ Verifies(World, mgr.access_password)
        /\ \A n \in Passwords, s \in ChangeSalts :
              change_password(World, mgr.access_password, n, s, FALSE).err
                  # "OldPasswordIncorrect"

\* C25 (stated as claimed): a manager that was just constructed, with a
\* container on disk and the medium in, loads the container under the
\* password that opens the metadata file, whatever calls were made and
\* whichever of them failed before
C25_FreshManagerLoads ==
    (mgr = NewManager /\ disk.exists /\ medium /\ cls.path) =>
        \A p \in Passwords :
            read_metadata(World, p).err = ""
                => load_filesystem(World, p).err = ""

\* C26 (stated as claimed): whenever the manager is initialized, its master
\* key and nonce are those derived from its access password and the salt in
\* its metadata, and that salt is the salt in the metadata file
C26_KeyFollowsSalt ==
    Initialized =>
        LET k == derive_key(mgr.access_password, mgr.metadata.salt)
        IN  /\ mgr.master_key = k.key
            /\ mgr.nonce = k.nonce
            /\ metaFile.st = "sealed" => metaFile.rec.salt = mgr.metadata.salt

\* import_file of a source file that is there or not
ImportAttempts(w) ==
    ImportCalls(w)
    \cup {ImportCall(w, FALSE, 0, NoPassword, fs, nextId + 1) : fs \in FileSalts}

\* every record of the manager's table is in the table of the metadata file
TablePersisted(w) ==
    \A i \in 1..Len(w.mgr.file_table) :
        \E j \in 1..Len(w.metaFile.rec.file_table) :
            w.metaFile.rec.file_table[j].id = w.mgr.file_table[i].id

\* C27 (stated as claimed): an import_file that fails leaves the manager's
\* file table as it was, and it returns with every record of the table
\* present in the table of the metadata file if that was so before
C27_FailedImportKeepsTable ==
    [][\A w \in ImportAttempts(World) :
          (w.err # "" /\ Returns(w)) =>
              /\ mgr'.file_table = mgr.file_table
              /\ TablePersisted(World) => TablePersisted(World')]_vars

\* C28: an export_file that succeeds writes the destination file and leaves
\* the manager with its file table and counters, the metadata file and the
\* decrypted content of the container as they were, with the container
\* sealed under the manager's key
C28_ExportChangesNothing ==
    Initialized =>
        \A x \in ExportCalls(World) :
            x.err = "" =>
                /\ x.out.exists
                /\ x.mgr = mgr
                /\ x.metaFile = metaFile
                /\ x.cls = cls
                /\ PlainOf(x) = PlainOf(World)
                /\ SealedAtRest(x)

\* an export writes a destination file with content while a soft-deleted
\* record is in the table
C28_Witness ==
    /\ Initialized
    /\ NumDeleted(Table) > 0
    /\ \E x \in ExportCalls(World) :
          /\ x.err = ""
          /\ x.out.exists
          /\ x.out.data # <<>>
          /\ SealedAtRest(x)

\* the calls that need an initialized manager
GuardedCalls(w) ==
    ImportAttempts(w) \cup DeleteSoftCalls(w) \cup DeletePermanentCalls(w)
    \cup RecoverCalls(w) \cup {SaveFilesystem(w)} \cup ExportCalls(w)
    \cup VerifyCalls(w) \cup ChangeCalls(w)

\* C29: on a manager that is not initialized, save_filesystem, import_file,
\* export_file, delete_file_soft, delete_file_permanent, recover_file,
\* verify_password and change_password raise the not-initialized error and
\* leave the container file, the metadata file and the file table as they
\* were, list_files returns the empty list, and a load_filesystem that fails
\* leaves the manager not initialized
C29_NeedsInitialized ==
    ~Initialized =>
        /\ \A x \in GuardedCalls(World) :
              /\ x.err = "NotInitialized"
              /\ x.disk = disk
              /\ x.metaFile = metaFile
              /\ x.mgr.file_table = Table
        /\ \A b \in BOOLEAN : list_files(World, b) = <<>>
        /\ \A x \in LoadCalls(World) : x.err # "" => ~x.mgr.is_initialized

\* a load has failed on a container whose metadata file holds records: the
\* manager is not initialized and refuses to save
C29_Witness ==
    /\ ~Initialized
    /\ disk.exists
    /\ mgr.access_password \in Passwords
    /\ metaFile.rec.file_table # <<>>
    /\ SaveFilesystem(World).err = "NotInitialized"
    /\ list_files(World, TRUE) = <<>>

====
